---- MODULE Spec2Model ----
(***************************************************************************)
(* Model of the analyzeShardKey command of a shardsvr/replica-set mongod   *)
(* (src/mongo/db/s/analyze_shard_key_cmd.cpp).                              *)
(*                                                                         *)
(* An invocation is dispatched by the command framework, which first runs  *)
(* doCheckAuthorization and then typedRun.  typedRun is modelled statement *)
(* by statement: the two topology uasserts, the two validation calls, the  *)
(* two fail-point guarded analysis phases and the return.  A uassert that  *)
(* fails and a collaborator that throws both end the invocation with an    *)
(* error; the stack-allocated Response is then never handed to the caller. *)
(***************************************************************************)
EXTENDS Integers, Sequences, FiniteSets, TLC

\* ------------------------------------------------------------------ bounds
\* Largest orphan-document count a key-characteristics result can carry.
MaxOrphanDocs == 2

\* Largest number of sampled queries a distribution record can summarise.
MaxSampleSize == 1

\* ------------------------------------------------------------- value space
\* The invocation followed by Spec and SpecFair: one request on one thread.
\* SpecConcurrent follows two at a time.
Invocations == {1}

\* boost::none of an optional field or of a not yet assigned local, and an
\* engaged optional holding v.
None == <<>>

Some(v) == <<v>>

Value(opt) == opt[1]

\* The namespaces a request can name.
Namespaces ==
    {"db.orders", "db.orders_view", "config.system.sessions", "config.system_view"}

\* The shard keys a request can propose.
ShardKeys == {"{region: 1}", "{_id: hashed}"}

\* The cluster roles serverGlobalParams.clusterRole can hold.
ClusterRoles == SUBSET {"ShardServer", "ConfigServer"}

\* Error codes a collaborator of a phase can throw.
CollaboratorErrors == {"CollaboratorFailure", "Interrupted"}

analyzeShardKeySkipCalcalutingKeyCharactericsMetrics == "analyzeShardKeySkipCalcalutingKeyCharactericsMetrics"

analyzeShardKeySkipCalcalutingReadWriteDistributionMetrics == "analyzeShardKeySkipCalcalutingReadWriteDistributionMetrics"

FailPoints == {analyzeShardKeySkipCalcalutingKeyCharactericsMetrics,
               analyzeShardKeySkipCalcalutingReadWriteDistributionMetrics}

kNumOrphanDocsFieldName == "numOrphanDocs"

kNumDocsFieldName == "numDocs"

kNumDistinctValuesFieldName == "numDistinctValues"

kMostCommonValuesFieldName == "mostCommonValues"

kOrphanDocsWarningMessage ==
    "If \"" \o kNumOrphanDocsFieldName \o "\" is large relative to \"" \o
    kNumDocsFieldName \o
    "\", you may want to rerun the command at some other time to get more accurate \"" \o
    kNumDistinctValuesFieldName \o "\" and \"" \o
    kMostCommonValuesFieldName \o "\" metrics."

\* The values calculateKeyCharacteristicsMetrics can return: the orphan
\* count is an optional field of the record.
KeyCharacteristicsMetrics ==
    [numOrphanDocs : {None} \cup {Some(n) : n \in 0..MaxOrphanDocs}]

ReadDistributionMetrics == [sampleSize : 0..MaxSampleSize]

WriteDistributionMetrics == [sampleSize : 0..MaxSampleSize]

\* A default-constructed Response: every optional field is unset.
EmptyResponse ==
    [keyCharacteristics |-> None, note |-> None,
     readDistribution |-> None, writeDistribution |-> None]

\* The local catalog of the node: what each namespace resolves to.
LocalCatalog ==
    [nss \in Namespaces |->
        CASE nss = "db.orders" -> [uuid |-> Some("uuid-orders"), isView |-> FALSE]
          [] nss \in {"db.orders_view", "config.system_view"} ->
                [uuid |-> None, isView |-> TRUE]
          [] OTHER -> [uuid |-> Some("uuid-sessions"), isView |-> FALSE]]

\* ------------------------------------------------------------------- state
VARIABLES
    isReplEnabled,          \* repl::ReplicationCoordinator::isReplEnabled()
    clusterRole,            \* serverGlobalParams.clusterRole
    gMultitenancySupport,   \* process-wide server parameter
    failPoints,             \* fail point name -> enabled
    catalog,                \* local collection catalog
    pc,                     \* invocation -> position in the dispatch
    request,                \* invocation -> the request being served
    collUuid,               \* invocation -> local collUuid of typedRun
    keyCharacteristics,     \* invocation -> local keyCharacteristics
    distributions,          \* invocation -> local [readDistribution, writeDistribution]
    calls,                  \* invocation -> collaborator calls with their arguments
    response,               \* invocation -> local response of typedRun
    result,                 \* invocation -> what the caller received
    trace                   \* invocation -> calls made so far, in order

vars == <<isReplEnabled, clusterRole, gMultitenancySupport, failPoints, catalog,
          pc, request, collUuid, keyCharacteristics,
                   distributions, calls,
          response, result, trace>>

envVars == <<isReplEnabled, clusterRole, gMultitenancySupport, catalog>>

\* ----------------------------------------------------------------- helpers
Event(op, ret) == [op |-> op, ret |-> ret]

Ok(resp) == [ok |-> TRUE, code |-> "OK", response |-> Some(resp)]

Error(code) == [ok |-> FALSE, code |-> code, response |-> None]

\* StatusWith-style results of the validation helpers.
StatusOK(value) == [code |-> "OK", value |-> value]

Status(code) == [code |-> code, value |-> None]

exclusivelyHasConfigRole(role) ==
    "ConfigServer" \in role /\ "ShardServer" \notin role

validateNamespace(nss) ==
    IF nss \in {"config.system.sessions", "config.system_view"}
    THEN Status("InvalidNamespace")
    ELSE StatusOK(None)

validateCollectionOptionsLocally(cat, nss) ==
    IF cat[nss].isView
    THEN Status("InvalidOptions")
    ELSE StatusOK(cat[nss].uuid)

shouldFail(fps, fp) == fps[fp]

setKeyCharacteristics_Dropped(resp, kc) == resp

setKeyCharacteristics(resp, kc) == [resp EXCEPT !.keyCharacteristics = Some(kc)]

\* response.getNumOrphanDocs(): the optional orphan count of the key
\* characteristics held by the response.
getNumOrphanDocs(resp) ==
    IF resp.keyCharacteristics = None
    THEN None
    ELSE Value(resp.keyCharacteristics).numOrphanDocs

setNote(resp, text) == [resp EXCEPT !.note = Some(text)]

AttachOrphanDocsNote_Always(resp) == setNote(resp, kOrphanDocsWarningMessage)

AttachOrphanDocsNote_LargeOnly(resp) ==
    IF getNumOrphanDocs(resp) # None /\ Value(getNumOrphanDocs(resp)) > 1
    THEN setNote(resp, kOrphanDocsWarningMessage)
    ELSE resp

\* Lines 92-94: the optional is tested for being engaged, not for its value.
AttachOrphanDocsNote(resp) ==
    IF getNumOrphanDocs(resp) # None
    THEN setNote(resp, kOrphanDocsWarningMessage)
    ELSE resp

setReadDistribution(resp, rd) == [resp EXCEPT !.readDistribution = Some(rd)]

setWriteDistribution(resp, wd) == [resp EXCEPT !.writeDistribution = Some(wd)]

SetDistributions_ReadOnly(resp, rd, wd) == setReadDistribution(resp, rd)

\* Lines 105-106.
SetDistributions(resp, rd, wd) ==
    setWriteDistribution(setReadDistribution(resp, rd), wd)

RunsReadWriteDistribution_GateOnly(multitenant, fps) ==
    ~shouldFail(fps, analyzeShardKeySkipCalcalutingReadWriteDistributionMetrics)

\* Lines 99-101: && short-circuits, so the fail point is read only when the
\* deployment is not multi-tenant.
RunsReadWriteDistribution(multitenant, fps) ==
    ~multitenant /\
    ~shouldFail(fps, analyzeShardKeySkipCalcalutingReadWriteDistributionMetrics)

RunsKeyCharacteristics_Always(fps) == TRUE

\* Lines 87-88.
RunsKeyCharacteristics(fps) ==
    ~shouldFail(fps, analyzeShardKeySkipCalcalutingKeyCharactericsMetrics)

BoolStr(b) == IF b THEN "true" ELSE "false"

\* A uassert that fails, or an exception of a collaborator, leaves typedRun.
Throws(i, code) ==
    /\ result' = [result EXCEPT ![i] = Some(Error(code))]
    /\ pc' = [pc EXCEPT ![i] = "done"]

Logged(i, op, ret) == trace' = [trace EXCEPT ![i] = Append(@, Event(op, ret))]

\* A call of an analysis collaborator with the arguments of lines 90 and 104.
Call(op, nss, uuid, key) == [op |-> op, nss |-> nss, collUuid |-> uuid, key |-> key]

\* Both collaborators are called with (opCtx, nss, collUuid, key): nss and key
\* refer to the request, collUuid is the local bound at line 80.
Calls(i, op) ==
    calls' = [calls EXCEPT ![i] =
                 Append(@, Call(op, Value(request[i]).ns, collUuid[i],
                                Value(request[i]).key))]

Called(i, op) == \E k \in 1..Len(trace[i]) : trace[i][k].op = op

\* -------------------------------------------------------------------- Init
Init ==
    /\ isReplEnabled \in BOOLEAN
    /\ clusterRole \in ClusterRoles
    /\ gMultitenancySupport \in BOOLEAN
    /\ failPoints \in [FailPoints -> BOOLEAN]
    /\ catalog = LocalCatalog
    /\ pc = [i \in Invocations |-> "idle"]
    /\ request = [i \in Invocations |-> None]
    /\ collUuid = [i \in Invocations |-> None]
    /\ keyCharacteristics = [i \in Invocations |-> None]
    /\ distributions = [i \in Invocations |-> None]
    /\ calls = [i \in Invocations |-> <<>>]
    /\ response = [i \in Invocations |-> None]
    /\ result = [i \in Invocations |-> None]
    /\ trace = [i \in Invocations |-> <<>>]

\* ----------------------------------------------------------------- actions
\* A client sends the command; the framework parses it into an Invocation.
Invoke(i) ==
    /\ pc[i] = "idle"
    /\ \E nss \in Namespaces, k \in ShardKeys, auth \in BOOLEAN :
          request' = [request EXCEPT ![i] =
                         Some([ns |-> nss, key |-> k, authorized |-> auth])]
    /\ pc' = [pc EXCEPT ![i] = "doCheckAuthorization"]
    /\ UNCHANGED <<envVars, failPoints, collUuid, keyCharacteristics,
                   distributions, calls,
                   response, result, trace>>

doCheckAuthorization_Unchecked(i) ==
    /\ pc[i] = "doCheckAuthorization"
    /\ Logged(i, "isAuthorizedForActionsOnResource", BoolStr(Value(request[i]).authorized))
    /\ pc' = [pc EXCEPT ![i] = "isReplEnabled"]
    /\ UNCHANGED <<envVars, failPoints, request, collUuid, keyCharacteristics,
                   distributions, calls, response, result>>

\* Lines 121-127.
doCheckAuthorization(i) ==
    /\ pc[i] = "doCheckAuthorization"
    /\ Logged(i, "isAuthorizedForActionsOnResource", BoolStr(Value(request[i]).authorized))
    /\ IF Value(request[i]).authorized
       THEN /\ pc' = [pc EXCEPT ![i] = "isReplEnabled"]
            /\ UNCHANGED result
       ELSE Throws(i, "Unauthorized")
    /\ UNCHANGED <<envVars, failPoints, request, collUuid, keyCharacteristics,
                   distributions, calls,
                   response>>

CheckReplEnabled_Unchecked(i) ==
    /\ pc[i] = "isReplEnabled"
    /\ Logged(i, "isReplEnabled", BoolStr(isReplEnabled))
    /\ pc' = [pc EXCEPT ![i] = "exclusivelyHasConfigRole"]
    /\ UNCHANGED <<envVars, failPoints, request, collUuid, keyCharacteristics,
                   distributions, calls,
                   response, result>>

\* Lines 70-72.
CheckReplEnabled(i) ==
    /\ pc[i] = "isReplEnabled"
    /\ Logged(i, "isReplEnabled", BoolStr(isReplEnabled))
    /\ IF isReplEnabled
       THEN /\ pc' = [pc EXCEPT ![i] = "exclusivelyHasConfigRole"]
            /\ UNCHANGED result
       ELSE Throws(i, "IllegalOperation")
    /\ UNCHANGED <<envVars, failPoints, request, collUuid, keyCharacteristics,
                   distributions, calls,
                   response>>

CheckClusterRole_Inverted(i) ==
    /\ pc[i] = "exclusivelyHasConfigRole"
    /\ Logged(i, "exclusivelyHasConfigRole",
              BoolStr(exclusivelyHasConfigRole(clusterRole)))
    /\ IF exclusivelyHasConfigRole(clusterRole)
       THEN /\ pc' = [pc EXCEPT ![i] = "validateNamespace"]
            /\ UNCHANGED result
       ELSE Throws(i, "IllegalOperation")
    /\ UNCHANGED <<envVars, failPoints, request, collUuid, keyCharacteristics,
                   distributions, calls,
                   response>>

\* Lines 73-75.
CheckClusterRole(i) ==
    /\ pc[i] = "exclusivelyHasConfigRole"
    /\ Logged(i, "exclusivelyHasConfigRole",
              BoolStr(exclusivelyHasConfigRole(clusterRole)))
    /\ IF ~exclusivelyHasConfigRole(clusterRole)
       THEN /\ pc' = [pc EXCEPT ![i] = "validateNamespace"]
            /\ UNCHANGED result
       ELSE Throws(i, "IllegalOperation")
    /\ UNCHANGED <<envVars, failPoints, request, collUuid, keyCharacteristics,
                   distributions, calls,
                   response>>

ValidateNamespace_Deferred(i) ==
    /\ pc[i] = "validateNamespace"
    /\ Logged(i, "validateNamespace", validateNamespace(Value(request[i]).ns).code)
    /\ pc' = [pc EXCEPT ![i] = "validateCollectionOptionsLocally"]
    /\ UNCHANGED <<envVars, failPoints, request, collUuid, keyCharacteristics,
                   distributions, calls, response, result>>

\* Lines 77-79.
ValidateNamespace(i) ==
    /\ pc[i] = "validateNamespace"
    /\ LET status == validateNamespace(Value(request[i]).ns) IN
          /\ Logged(i, "validateNamespace", status.code)
          /\ IF status.code = "OK"
             THEN /\ pc' = [pc EXCEPT ![i] = "validateCollectionOptionsLocally"]
                  /\ UNCHANGED result
             ELSE Throws(i, status.code)
    /\ UNCHANGED <<envVars, failPoints, request, collUuid, keyCharacteristics,
                   distributions, calls,
                   response>>

ValidateCollectionOptionsLocally_Unchecked(i) ==
    /\ pc[i] = "validateCollectionOptionsLocally"
    /\ LET status == validateCollectionOptionsLocally(catalog, Value(request[i]).ns) IN
          /\ Logged(i, "validateCollectionOptionsLocally", status.code)
          /\ collUuid' = [collUuid EXCEPT ![i] = status.value]
          /\ response' = [response EXCEPT ![i] = Some(EmptyResponse)]
          /\ pc' = [pc EXCEPT ![i] = "phase1"]
    /\ UNCHANGED <<envVars, failPoints, request, keyCharacteristics, distributions, calls, result>>

ValidateCollectionOptionsLocally_Mutating(i) ==
    /\ pc[i] = "validateCollectionOptionsLocally"
    /\ LET nss == Value(request[i]).ns
           status == validateCollectionOptionsLocally(catalog, nss) IN
          /\ Logged(i, "validateCollectionOptionsLocally", status.code)
          /\ IF status.code = "OK"
             THEN /\ collUuid' = [collUuid EXCEPT ![i] = status.value]
                  /\ response' = [response EXCEPT ![i] = Some(EmptyResponse)]
                  /\ pc' = [pc EXCEPT ![i] = "phase1"]
                  /\ catalog' = [catalog EXCEPT ![nss].uuid = Some("uuid-recreated")]
                  /\ UNCHANGED result
             ELSE /\ Throws(i, status.code)
                  /\ UNCHANGED <<collUuid, response, catalog>>
    /\ UNCHANGED <<isReplEnabled, clusterRole, gMultitenancySupport, failPoints,
                   request, keyCharacteristics, distributions, calls>>

\* Lines 80-84: on success collUuid is bound and the Response is constructed.
ValidateCollectionOptionsLocally(i) ==
    /\ pc[i] = "validateCollectionOptionsLocally"
    /\ LET status == validateCollectionOptionsLocally(catalog, Value(request[i]).ns) IN
          /\ Logged(i, "validateCollectionOptionsLocally", status.code)
          /\ IF status.code = "OK"
             THEN /\ collUuid' = [collUuid EXCEPT ![i] = status.value]
                  /\ response' = [response EXCEPT ![i] = Some(EmptyResponse)]
                  /\ pc' = [pc EXCEPT ![i] = "phase1"]
                  /\ UNCHANGED result
             ELSE /\ Throws(i, status.code)
                  /\ UNCHANGED <<collUuid, response>>
    /\ UNCHANGED <<envVars, failPoints, request, keyCharacteristics, distributions, calls>>

Phase1Gate_SkipsBoth(i) ==
    /\ pc[i] = "phase1"
    /\ Logged(i, "shouldFail(KeyCharacterics)",
              BoolStr(shouldFail(failPoints,
                 analyzeShardKeySkipCalcalutingKeyCharactericsMetrics)))
    /\ pc' = [pc EXCEPT ![i] =
                 IF RunsKeyCharacteristics(failPoints)
                 THEN "calculateKeyCharacteristicsMetrics"
                 ELSE "return"]
    /\ UNCHANGED <<envVars, failPoints, request, collUuid, keyCharacteristics,
                   distributions, calls, response, result>>

Phase1Gate_Phase2First(i) ==
    /\ pc[i] = "phase1"
    /\ Logged(i, "shouldFail(KeyCharacterics)",
              BoolStr(shouldFail(failPoints,
                 analyzeShardKeySkipCalcalutingKeyCharactericsMetrics)))
    /\ pc' = [pc EXCEPT ![i] =
                 IF RunsKeyCharacteristics(failPoints)
                 THEN "calculateReadWriteDistributionMetrics"
                 ELSE "phase2"]
    /\ UNCHANGED <<envVars, failPoints, request, collUuid, keyCharacteristics,
                   distributions, calls, response, result>>

\* Lines 87-88: the fail point decides whether phase 1 is entered.
Phase1Gate(i) ==
    /\ pc[i] = "phase1"
    /\ Logged(i, "shouldFail(KeyCharacterics)",
              BoolStr(shouldFail(failPoints,
                 analyzeShardKeySkipCalcalutingKeyCharactericsMetrics)))
    /\ pc' = [pc EXCEPT ![i] =
                 IF RunsKeyCharacteristics(failPoints)
                 THEN "calculateKeyCharacteristicsMetrics"
                 ELSE "phase2"]
    /\ UNCHANGED <<envVars, failPoints, request, collUuid, keyCharacteristics,
                   distributions, calls,
                   response, result>>

CalculateKeyCharacteristicsMetrics_Retry(i) ==
    /\ pc[i] = "calculateKeyCharacteristicsMetrics"
    /\ \/ \E kc \in KeyCharacteristicsMetrics :
             /\ Logged(i, "calculateKeyCharacteristicsMetrics", "OK")
             /\ keyCharacteristics' = [keyCharacteristics EXCEPT ![i] = Some(kc)]
             /\ response' = [response EXCEPT ![i] =
                    Some(AttachOrphanDocsNote(setKeyCharacteristics(Value(@), kc)))]
             /\ pc' = [pc EXCEPT ![i] = "phase2"]
             /\ UNCHANGED result
       \/ \E code \in CollaboratorErrors :
             /\ Logged(i, "calculateKeyCharacteristicsMetrics", code)
             /\ IF Called(i, "calculateKeyCharacteristicsMetrics")
                THEN Throws(i, code)
                ELSE UNCHANGED <<pc, result>>
             /\ UNCHANGED <<keyCharacteristics, response>>
    /\ Calls(i, "calculateKeyCharacteristicsMetrics")
    /\ UNCHANGED <<envVars, failPoints, request, collUuid, distributions>>

\* Lines 89-94: the collaborator returns the metrics, which are stored in the
\* response and decide the note, or it throws.
CalculateKeyCharacteristicsMetrics(i) ==
    /\ pc[i] = "calculateKeyCharacteristicsMetrics"
    /\ \/ \E kc \in KeyCharacteristicsMetrics :
             /\ Logged(i, "calculateKeyCharacteristicsMetrics", "OK")
             /\ keyCharacteristics' = [keyCharacteristics EXCEPT ![i] = Some(kc)]
             /\ response' = [response EXCEPT ![i] =
                    Some(AttachOrphanDocsNote(setKeyCharacteristics(Value(@), kc)))]
             /\ pc' = [pc EXCEPT ![i] = "phase2"]
             /\ UNCHANGED result
       \/ \E code \in CollaboratorErrors :
             /\ Logged(i, "calculateKeyCharacteristicsMetrics", code)
             /\ Throws(i, code)
             /\ UNCHANGED <<keyCharacteristics, response>>
    /\ Calls(i, "calculateKeyCharacteristicsMetrics")
    /\ UNCHANGED <<envVars, failPoints, request, collUuid, distributions>>

\* Lines 99-101.
Phase2Gate_ReadsGateFirst(i) ==
    /\ pc[i] = "phase2"
    /\ trace' = [trace EXCEPT ![i] =
          Append(Append(@, Event("shouldFail(ReadWriteDistribution)",
                                 BoolStr(shouldFail(failPoints,
                                    analyzeShardKeySkipCalcalutingReadWriteDistributionMetrics)))),
                 Event("gMultitenancySupport", BoolStr(gMultitenancySupport)))]
    /\ pc' = [pc EXCEPT ![i] =
                 IF RunsReadWriteDistribution(gMultitenancySupport, failPoints)
                 THEN "calculateReadWriteDistributionMetrics"
                 ELSE "return"]
    /\ UNCHANGED <<envVars, failPoints, request, collUuid, keyCharacteristics,
                   distributions, calls,
                   response, result>>

\* Lines 99-100: the flag is tested first, the fail point only when the
\* flag is off.
Phase2Gate(i) ==
    /\ pc[i] = "phase2"
    /\ trace' = [trace EXCEPT ![i] =
          IF gMultitenancySupport
          THEN Append(@, Event("gMultitenancySupport", "true"))
          ELSE Append(Append(@, Event("gMultitenancySupport", "false")),
                      Event("shouldFail(ReadWriteDistribution)",
                            BoolStr(shouldFail(failPoints,
                               analyzeShardKeySkipCalcalutingReadWriteDistributionMetrics))))]
    /\ pc' = [pc EXCEPT ![i] =
                 IF RunsReadWriteDistribution(gMultitenancySupport, failPoints)
                 THEN "calculateReadWriteDistributionMetrics"
                 ELSE "return"]
    /\ UNCHANGED <<envVars, failPoints, request, collUuid, keyCharacteristics,
                   distributions, calls,
                   response, result>>

CalculateReadWriteDistributionMetrics_Partial(i) ==
    /\ pc[i] = "calculateReadWriteDistributionMetrics"
    /\ \/ \E rd \in ReadDistributionMetrics, wd \in WriteDistributionMetrics :
             /\ Logged(i, "calculateReadWriteDistributionMetrics", "OK")
             /\ distributions' = [distributions EXCEPT ![i] = Some(<<rd, wd>>)]
             /\ response' = [response EXCEPT ![i] =
                    Some(SetDistributions(Value(@), rd, wd))]
       \/ \E code \in CollaboratorErrors :
             /\ Logged(i, "calculateReadWriteDistributionMetrics", code)
             /\ UNCHANGED <<distributions, response>>
    /\ Calls(i, "calculateReadWriteDistributionMetrics")
    /\ pc' = [pc EXCEPT ![i] = "return"]
    /\ UNCHANGED <<envVars, failPoints, request, collUuid, keyCharacteristics,
                   result>>

CalculateReadWriteDistributionMetrics_Reresolves(i) ==
    /\ pc[i] = "calculateReadWriteDistributionMetrics"
    /\ \/ \E rd \in ReadDistributionMetrics, wd \in WriteDistributionMetrics :
             /\ Logged(i, "calculateReadWriteDistributionMetrics", "OK")
             /\ distributions' = [distributions EXCEPT ![i] = Some(<<rd, wd>>)]
             /\ response' = [response EXCEPT ![i] =
                    Some(SetDistributions(Value(@), rd, wd))]
             /\ pc' = [pc EXCEPT ![i] = "return"]
             /\ UNCHANGED result
       \/ \E code \in CollaboratorErrors :
             /\ Logged(i, "calculateReadWriteDistributionMetrics", code)
             /\ Throws(i, code)
             /\ UNCHANGED <<distributions, response>>
    /\ calls' = [calls EXCEPT ![i] =
          Append(@, Call("calculateReadWriteDistributionMetrics",
                         Value(request[i]).ns,
                         validateCollectionOptionsLocally(catalog, Value(request[i]).ns).value,
                         Value(request[i]).key))]
    /\ UNCHANGED <<envVars, failPoints, request, collUuid, keyCharacteristics>>

\* Lines 102-106.
CalculateReadWriteDistributionMetrics(i) ==
    /\ pc[i] = "calculateReadWriteDistributionMetrics"
    /\ \/ \E rd \in ReadDistributionMetrics, wd \in WriteDistributionMetrics :
             /\ Logged(i, "calculateReadWriteDistributionMetrics", "OK")
             /\ distributions' = [distributions EXCEPT ![i] = Some(<<rd, wd>>)]
             /\ response' = [response EXCEPT ![i] =
                    Some(SetDistributions(Value(@), rd, wd))]
             /\ pc' = [pc EXCEPT ![i] = "return"]
             /\ UNCHANGED result
       \/ \E code \in CollaboratorErrors :
             /\ Logged(i, "calculateReadWriteDistributionMetrics", code)
             /\ Throws(i, code)
             /\ UNCHANGED <<distributions, response>>
    /\ Calls(i, "calculateReadWriteDistributionMetrics")
    /\ UNCHANGED <<envVars, failPoints, request, collUuid, keyCharacteristics>>

Return_SharedResponse(i) ==
    /\ pc[i] = "return"
    /\ \E j \in DOMAIN response :
          /\ response[j] # None
          /\ result' = [result EXCEPT ![i] = Some(Ok(Value(response[j])))]
    /\ pc' = [pc EXCEPT ![i] = "done"]
    /\ UNCHANGED <<envVars, failPoints, request, collUuid, keyCharacteristics,
                   distributions, calls,
                   response, trace>>

\* Line 109.
Return(i) ==
    /\ pc[i] = "return"
    /\ result' = [result EXCEPT ![i] = Some(Ok(Value(response[i])))]
    /\ pc' = [pc EXCEPT ![i] = "done"]
    /\ UNCHANGED <<envVars, failPoints, request, collUuid, keyCharacteristics,
                   distributions, calls,
                   response, trace>>

\* An operator turns a fail point on or off (configureFailPoint).
ConfigureFailPoint ==
    /\ \E fp \in FailPoints, mode \in BOOLEAN :
          /\ failPoints[fp] # mode
          /\ failPoints' = [failPoints EXCEPT ![fp] = mode]
    /\ UNCHANGED <<envVars, pc, request, collUuid, keyCharacteristics,
                   distributions, calls,
                   response, result, trace>>

\* A client drops a collection and creates it again: the namespace now names
\* a collection with a new UUID.
DropAndRecreateCollection ==
    /\ \E nss \in Namespaces :
          /\ ~catalog[nss].isView
          /\ catalog[nss] = LocalCatalog[nss]
          /\ catalog' = [catalog EXCEPT ![nss].uuid = Some("uuid-recreated")]
    /\ UNCHANGED <<isReplEnabled, clusterRole, gMultitenancySupport, failPoints,
                   pc, request, collUuid, keyCharacteristics, distributions, calls,
                   response, result, trace>>

typedRun(i) ==
    \/ CheckReplEnabled(i)
    \/ CheckClusterRole(i)
    \/ ValidateNamespace(i)
    \/ ValidateCollectionOptionsLocally(i)
    \/ Phase1Gate(i)
    \/ CalculateKeyCharacteristicsMetrics(i)
    \/ Phase2Gate(i)
    \/ CalculateReadWriteDistributionMetrics(i)
    \/ Return(i)

Next ==
    \/ \E i \in Invocations : Invoke(i)
    \/ \E i \in Invocations : doCheckAuthorization(i)
    \/ \E i \in Invocations : typedRun(i)
    \/ ConfigureFailPoint
    \/ DropAndRecreateCollection

Spec == Init /\ [][Next]_vars

\* The thread serving a request keeps running, and a collaborator that was
\* called returns or throws: every invocation that can take a step does.
Fairness ==
    \A i \in Invocations : WF_vars(doCheckAuthorization(i) \/ typedRun(i))

SpecFair == Init /\ [][Next]_vars /\ Fairness

\* Two requests served at the same time by two threads of the same node, on
\* a deployment whose catalog does not change meanwhile.
ConcurrentInvocations == {1, 2}

InitConcurrent ==
    /\ isReplEnabled \in BOOLEAN
    /\ clusterRole \in ClusterRoles
    /\ gMultitenancySupport \in BOOLEAN
    /\ failPoints \in [FailPoints -> BOOLEAN]
    /\ catalog = LocalCatalog
    /\ pc = [i \in ConcurrentInvocations |-> "idle"]
    /\ request = [i \in ConcurrentInvocations |-> None]
    /\ collUuid = [i \in ConcurrentInvocations |-> None]
    /\ keyCharacteristics = [i \in ConcurrentInvocations |-> None]
    /\ distributions = [i \in ConcurrentInvocations |-> None]
    /\ calls = [i \in ConcurrentInvocations |-> <<>>]
    /\ response = [i \in ConcurrentInvocations |-> None]
    /\ result = [i \in ConcurrentInvocations |-> None]
    /\ trace = [i \in ConcurrentInvocations |-> <<>>]

NextConcurrent ==
    \/ \E i \in ConcurrentInvocations : Invoke(i)
    \/ \E i \in ConcurrentInvocations : doCheckAuthorization(i)
    \/ \E i \in ConcurrentInvocations : typedRun(i)
    \/ ConfigureFailPoint

SpecConcurrent == InitConcurrent /\ [][NextConcurrent]_vars

TypeOK ==
    /\ isReplEnabled \in BOOLEAN
    /\ clusterRole \in ClusterRoles
    /\ gMultitenancySupport \in BOOLEAN
    /\ failPoints \in [FailPoints -> BOOLEAN]
    /\ \A i \in Invocations :
          /\ pc[i] \in {"idle", "doCheckAuthorization", "isReplEnabled",
                        "exclusivelyHasConfigRole", "validateNamespace",
                        "validateCollectionOptionsLocally", "phase1",
                        "calculateKeyCharacteristicsMetrics", "phase2",
                        "calculateReadWriteDistributionMetrics", "return", "done"}
          /\ Len(trace[i]) <= 10
          /\ Len(calls[i]) <= 2

\* ------------------------------------------------- vocabulary of the claims
Returned(i, op, ret) == \E k \in 1..Len(trace[i]) : trace[i][k] = Event(op, ret)

Finished(i) == pc[i] = "done"

Succeeded(i) == result[i] # None /\ Value(result[i]).ok

Failed(i) == result[i] # None /\ ~Value(result[i]).ok

FailedWith(i, code) == result[i] = Some(Error(code))

\* The response the caller of a successful invocation received.
Reply(i) == Value(Value(result[i]).response)

\* typedRun has been entered: the request was dispatched and authorized.
InTypedRun(i) ==
    /\ pc[i] \notin {"idle", "doCheckAuthorization"}
    /\ Value(request[i]).authorized

KeyCharacteristicsGateDisengaged(i) ==
    Returned(i, "shouldFail(KeyCharacterics)", "false")

KeyCharacteristicsGateEngaged(i) ==
    Returned(i, "shouldFail(KeyCharacterics)", "true")

DistributionGateDisengaged(i) ==
    Returned(i, "shouldFail(ReadWriteDistribution)", "false")

\* The orphan count phase 1 reported to typedRun.
ReportedOrphanDocs(i) == Value(keyCharacteristics[i]).numOrphanDocs

NoPhaseCalled(i) ==
    /\ ~Called(i, "calculateKeyCharacteristicsMetrics")
    /\ ~Called(i, "calculateReadWriteDistributionMetrics")

\* ------------------------------------------------------------------ claims
\* C1 as stated: in a successful invocation whose key-characteristics gate
\* was disengaged, an orphan count that is present and 0, or absent, leaves
\* the response without a note.
C1_ZeroOrAbsentCountHasNoNote ==
    \A i \in Invocations :
        (/\ Succeeded(i)
         /\ KeyCharacteristicsGateDisengaged(i)
         /\ ReportedOrphanDocs(i) \in {None, Some(0)})
        => Reply(i).note = None

\* C1 amended: in a successful invocation whose key-characteristics gate was
\* disengaged, an absent orphan count leaves the response without a note,
\* and a reported count of 0 attaches the advisory note like any other
\* reported count.
C1_AbsentCountHasNoNote ==
    \A i \in Invocations :
        (Succeeded(i) /\ KeyCharacteristicsGateDisengaged(i))
        => /\ ReportedOrphanDocs(i) = None => Reply(i).note = None
           /\ ReportedOrphanDocs(i) = Some(0)
                 => Reply(i).note = Some(kOrphanDocsWarningMessage)

C1_Witness ==
    \E i \in Invocations :
        /\ Succeeded(i)
        /\ KeyCharacteristicsGateDisengaged(i)
        /\ ReportedOrphanDocs(i) = None
        /\ Reply(i).keyCharacteristics # None
        /\ Reply(i).note = None

\* C2: in a successful invocation whose key-characteristics gate was
\* disengaged and whose phase 1 reported an orphan count greater than 0, the
\* response carries the note kOrphanDocsWarningMessage, with or without
\* phase 2.
C2_PositiveCountHasNote ==
    \A i \in Invocations :
        (/\ Succeeded(i)
         /\ KeyCharacteristicsGateDisengaged(i)
         /\ ReportedOrphanDocs(i) # None
         /\ Value(ReportedOrphanDocs(i)) > 0)
        => Reply(i).note = Some(kOrphanDocsWarningMessage)

C2_Witness ==
    \E i \in Invocations :
        /\ Succeeded(i)
        /\ KeyCharacteristicsGateDisengaged(i)
        /\ ReportedOrphanDocs(i) = Some(1)
        /\ Called(i, "calculateReadWriteDistributionMetrics")
        /\ Reply(i).note = Some(kOrphanDocsWarningMessage)

\* C3: on a standalone deployment typedRun stops at its first check: it ends
\* with IllegalOperation, calls neither analysis phase and returns no
\* response, whatever the role, namespace, gates and multi-tenant flag.
C3_StandaloneIsIllegalOperation ==
    \A i \in Invocations :
        (InTypedRun(i) /\ ~isReplEnabled)
        => /\ pc[i] \in {"isReplEnabled", "done"}
           /\ NoPhaseCalled(i)
           /\ Finished(i) => FailedWith(i, "IllegalOperation")
           /\ ~Finished(i) => result[i] = None

C3_Witness ==
    \E i \in Invocations :
        /\ InTypedRun(i)
        /\ ~isReplEnabled
        /\ Finished(i)
        /\ FailedWith(i, "IllegalOperation")
        /\ Value(request[i]).ns = "db.orders"
        /\ clusterRole = {"ShardServer"}

\* C4: on a node that exclusively has the config role typedRun ends with
\* IllegalOperation, calls neither analysis phase and returns no response,
\* whatever the namespace, gates and multi-tenant flag.
C4_ConfigOnlyIsIllegalOperation ==
    \A i \in Invocations :
        (InTypedRun(i) /\ exclusivelyHasConfigRole(clusterRole))
        => /\ pc[i] \in {"isReplEnabled", "exclusivelyHasConfigRole", "done"}
           /\ NoPhaseCalled(i)
           /\ ~Called(i, "validateNamespace")
           /\ Finished(i) => FailedWith(i, "IllegalOperation")
           /\ ~Finished(i) => result[i] = None

C4_Witness ==
    \E i \in Invocations :
        /\ InTypedRun(i)
        /\ isReplEnabled
        /\ exclusivelyHasConfigRole(clusterRole)
        /\ Returned(i, "exclusivelyHasConfigRole", "true")
        /\ Finished(i)
        /\ FailedWith(i, "IllegalOperation")

\* C5: when validateNamespace or validateCollectionOptionsLocally returns an
\* error, no analysis phase is called and the invocation ends with exactly
\* that error and without any response.
C5_ValidationFailureAborts ==
    \A i \in Invocations :
        \A op \in {"validateNamespace", "validateCollectionOptionsLocally"} :
            \A k \in 1..Len(trace[i]) :
                (trace[i][k].op = op /\ trace[i][k].ret # "OK")
                => /\ k = Len(trace[i])
                   /\ Finished(i)
                   /\ FailedWith(i, trace[i][k].ret)
                   /\ Value(result[i]).response = None
                   /\ NoPhaseCalled(i)

C5_Witness ==
    \E i \in Invocations :
        /\ Returned(i, "validateNamespace", "OK")
        /\ Returned(i, "validateCollectionOptionsLocally", "InvalidOptions")
        /\ FailedWith(i, "InvalidOptions")

\* C6: when the collaborator of an attempted phase throws, the invocation
\* ends with exactly that error and no response, also when phase 1 had
\* already put key characteristics and a note into the response.
C6_PhaseFailureAborts ==
    \A i \in Invocations :
        \A op \in {"calculateKeyCharacteristicsMetrics",
                   "calculateReadWriteDistributionMetrics"} :
            \A k \in 1..Len(trace[i]) :
                (trace[i][k].op = op /\ trace[i][k].ret \in CollaboratorErrors)
                => /\ k = Len(trace[i])
                   /\ Finished(i)
                   /\ FailedWith(i, trace[i][k].ret)
                   /\ Value(result[i]).response = None

C6_Witness ==
    \E i \in Invocations :
        /\ Returned(i, "calculateKeyCharacteristicsMetrics", "OK")
        /\ Value(response[i]).keyCharacteristics # None
        /\ Value(response[i]).note # None
        /\ Returned(i, "calculateReadWriteDistributionMetrics", "Interrupted")
        /\ FailedWith(i, "Interrupted")

\* C7: once the key-characteristics gate was found engaged,
\* calculateKeyCharacteristicsMetrics is never called, and a successful
\* invocation returns neither keyCharacteristics nor a note, with or without
\* phase 2.
C7_EngagedGateSkipsPhase1 ==
    \A i \in Invocations :
        KeyCharacteristicsGateEngaged(i)
        => /\ ~Called(i, "calculateKeyCharacteristicsMetrics")
           /\ keyCharacteristics[i] = None
           /\ Succeeded(i) => /\ Reply(i).keyCharacteristics = None
                              /\ Reply(i).note = None

C7_Witness ==
    \E i \in Invocations :
        /\ KeyCharacteristicsGateEngaged(i)
        /\ Succeeded(i)
        /\ Reply(i).readDistribution # None
        /\ Reply(i).note = None

\* C8: on a multi-tenant deployment calculateReadWriteDistributionMetrics is
\* never called and a successful invocation returns neither readDistribution
\* nor writeDistribution, whether the distribution gate is engaged or not.
C8_MultitenantSkipsPhase2 ==
    \A i \in Invocations :
        gMultitenancySupport
        => /\ ~Called(i, "calculateReadWriteDistributionMetrics")
           /\ pc[i] # "calculateReadWriteDistributionMetrics"
           /\ Succeeded(i) => /\ Reply(i).readDistribution = None
                              /\ Reply(i).writeDistribution = None

C8_Witness ==
    \E i \in Invocations :
        /\ gMultitenancySupport
        /\ ~shouldFail(failPoints,
              analyzeShardKeySkipCalcalutingReadWriteDistributionMetrics)
        /\ Succeeded(i)
        /\ Reply(i).keyCharacteristics # None
        /\ Reply(i).readDistribution = None

\* C9: in a returned response keyCharacteristics is present exactly when
\* phase 1 was called, which is exactly when its gate was disengaged;
\* readDistribution and writeDistribution are present exactly when phase 2
\* was called, which is exactly when the deployment is not multi-tenant and
\* the distribution gate was disengaged; and an invocation that passed the
\* preconditions and saw no collaborator fail ends with a response.
C9_FieldsReflectPhases ==
    \A i \in Invocations :
        /\ Succeeded(i) =>
              /\ Reply(i).keyCharacteristics # None
                    <=> Called(i, "calculateKeyCharacteristicsMetrics")
              /\ Called(i, "calculateKeyCharacteristicsMetrics")
                    <=> KeyCharacteristicsGateDisengaged(i)
              /\ Reply(i).readDistribution # None
                    <=> Called(i, "calculateReadWriteDistributionMetrics")
              /\ Reply(i).writeDistribution # None
                    <=> Called(i, "calculateReadWriteDistributionMetrics")
              /\ Called(i, "calculateReadWriteDistributionMetrics")
                    <=> (~gMultitenancySupport /\ DistributionGateDisengaged(i))
        /\ (/\ Finished(i)
            /\ Returned(i, "validateCollectionOptionsLocally", "OK")
            /\ \A k \in 1..Len(trace[i]) : trace[i][k].ret \notin CollaboratorErrors)
           => Succeeded(i)

C9_Witness ==
    \E i \in Invocations :
        /\ Succeeded(i)
        /\ NoPhaseCalled(i)
        /\ Reply(i) = EmptyResponse

\* C10: every response handed to a caller has readDistribution present if
\* and only if writeDistribution is present.
C10_DistributionsTogether ==
    \A i \in Invocations :
        Succeeded(i)
        => (Reply(i).readDistribution = None <=> Reply(i).writeDistribution = None)

C10_Witness ==
    \E i \in Invocations :
        /\ Succeeded(i)
        /\ Reply(i).readDistribution # None
        /\ Reply(i).writeDistribution # None

\* C11: a caller without the shardCollection action on the target namespace
\* gets Unauthorized and nothing but the authorization check is executed for
\* it: no topology check, no validation, no analysis phase, no response; and
\* for every caller the authorization check is the first call made.
C11_UnauthorizedStopsFirst ==
    \A i \in Invocations :
        /\ trace[i] # <<>> => trace[i][1].op = "isAuthorizedForActionsOnResource"
        /\ (request[i] # None /\ ~Value(request[i]).authorized)
           => /\ pc[i] \in {"doCheckAuthorization", "done"}
              /\ \A k \in 1..Len(trace[i]) :
                    trace[i][k] = Event("isAuthorizedForActionsOnResource", "false")
              /\ calls[i] = <<>>
              /\ collUuid[i] = None
              /\ response[i] = None
              /\ Finished(i) => FailedWith(i, "Unauthorized")
              /\ ~Finished(i) => result[i] = None

C11_Witness ==
    \E i \in Invocations :
        /\ Finished(i)
        /\ ~Value(request[i]).authorized
        /\ FailedWith(i, "Unauthorized")
        /\ ~isReplEnabled
        /\ exclusivelyHasConfigRole(clusterRole)
        /\ validateNamespace(Value(request[i]).ns).code # "OK"

\* The four precondition checks of typedRun, in source order.
PreconditionChecks ==
    <<"isReplEnabled", "exclusivelyHasConfigRole", "validateNamespace",
      "validateCollectionOptionsLocally">>

\* What a precondition check returns on the current deployment.
CheckOutcome(op, nss) ==
    CASE op = "isReplEnabled" -> BoolStr(isReplEnabled)
      [] op = "exclusivelyHasConfigRole" ->
            BoolStr(exclusivelyHasConfigRole(clusterRole))
      [] op = "validateNamespace" -> validateNamespace(nss).code
      [] OTHER -> validateCollectionOptionsLocally(catalog, nss).code

\* C12: two runs of the precondition checks on the same namespace of an
\* unchanged deployment agree on every check they both made and on the
\* resolved collection UUID, every check returns what the deployment
\* determines, and no check changes the deployment, the catalog or the fail
\* points that another run reads.
C12_ValidationAgrees ==
    /\ \A i \in ConcurrentInvocations : \A c \in 1..4 :
          Len(trace[i]) > c
          => trace[i][c + 1] =
                Event(PreconditionChecks[c],
                      CheckOutcome(PreconditionChecks[c], Value(request[i]).ns))
    /\ \A i, j \in ConcurrentInvocations :
          (/\ i < j
           /\ request[i] # None
           /\ request[j] # None
           /\ Value(request[i]).ns = Value(request[j]).ns)
          => /\ \A c \in 1..4 :
                   (Len(trace[i]) > c /\ Len(trace[j]) > c)
                   => trace[i][c + 1] = trace[j][c + 1]
             /\ (/\ Len(trace[i]) > 4 /\ trace[i][5].ret = "OK"
                 /\ Len(trace[j]) > 4 /\ trace[j][5].ret = "OK")
                => /\ collUuid[i] # None
                   /\ collUuid[i] = collUuid[j]

\* Invocation i is at one of its precondition checks and takes it.
TakesValidationStep(i) ==
    /\ pc[i] \in {"isReplEnabled", "exclusivelyHasConfigRole", "validateNamespace",
                  "validateCollectionOptionsLocally"}
    /\ pc'[i] # pc[i]

C12_ValidationIsPure ==
    \A i \in ConcurrentInvocations :
        TakesValidationStep(i)
        => /\ UNCHANGED <<envVars, failPoints>>
           /\ \A j \in ConcurrentInvocations \ {i} :
                 UNCHANGED <<pc[j], request[j], collUuid[j], response[j], result[j]>>

CheckPasses(c, ret) ==
    CASE c = 1 -> ret = "true"
      [] c = 2 -> ret = "false"
      [] OTHER -> ret = "OK"

CheckError(c, ret) == IF c <= 2 THEN "IllegalOperation" ELSE ret

\* The precondition checks the deployment and the namespace violate.
ViolatedChecks(nss) ==
    {c \in 1..4 :
        ~CheckPasses(c, CheckOutcome(PreconditionChecks[c], nss))}

EarliestViolated(nss) ==
    CHOOSE c \in ViolatedChecks(nss) : \A d \in ViolatedChecks(nss) : c <= d

\* C13: the precondition checks are made in the order isReplEnabled,
\* exclusivelyHasConfigRole, validateNamespace,
\* validateCollectionOptionsLocally; a check that fails is the last call of
\* the invocation; and when the request violates one or more checks the
\* invocation ends with the single error of the earliest violated one.
C13_ChecksInOrderFailFast ==
    \A i \in Invocations :
        InTypedRun(i)
        => LET nss == Value(request[i]).ns IN
           /\ \A c \in 1..4 :
                 Len(trace[i]) > c
                 => /\ trace[i][c + 1].op = PreconditionChecks[c]
                    /\ ~CheckPasses(c, trace[i][c + 1].ret)
                       => /\ Len(trace[i]) = c + 1
                          /\ FailedWith(i, CheckError(c, trace[i][c + 1].ret))
           /\ (Finished(i) /\ ViolatedChecks(nss) # {})
              => LET c == EarliestViolated(nss) IN
                 /\ Len(trace[i]) = c + 1
                 /\ FailedWith(i, CheckError(c, CheckOutcome(PreconditionChecks[c], nss)))
                 /\ calls[i] = <<>>

C13_Witness ==
    \E i \in Invocations :
        /\ Finished(i)
        /\ InTypedRun(i)
        /\ ViolatedChecks(Value(request[i]).ns) = {3, 4}
        /\ FailedWith(i, "InvalidNamespace")
        /\ Len(trace[i]) = 4

\* Invocation i leaves the position at which it stands.
Leaves(i, position) == pc[i] = position /\ pc'[i] # position

\* Whether each phase is entered depends on nothing but its own guard.
GuardsDecide(i) ==
    /\ Leaves(i, "phase1")
       => pc'[i] = IF ~failPoints[analyzeShardKeySkipCalcalutingKeyCharactericsMetrics]
                   THEN "calculateKeyCharacteristicsMetrics"
                   ELSE "phase2"
    /\ Leaves(i, "phase2")
       => pc'[i] = IF /\ ~gMultitenancySupport
                      /\ ~failPoints[analyzeShardKeySkipCalcalutingReadWriteDistributionMetrics]
                   THEN "calculateReadWriteDistributionMetrics"
                   ELSE "return"

\* C14 as stated: whether a phase is attempted is decided by its own guard
\* alone (the key-characteristics gate for phase 1, the multi-tenant flag and
\* the distribution gate for phase 2), whatever the other phase did: after
\* phase 1 succeeded, failed or was skipped, the guard of phase 2 is what
\* decides whether phase 2 runs.
C14_PhasesIndependent ==
    [][\A i \in Invocations :
          /\ GuardsDecide(i)
          /\ Leaves(i, "calculateKeyCharacteristicsMetrics") => pc'[i] = "phase2"]_vars

\* C14 amended: phase 1 is attempted exactly when its gate is disengaged;
\* after phase 1 succeeded or was skipped, phase 2 is attempted exactly when
\* the deployment is not multi-tenant and the distribution gate is
\* disengaged; after phase 1 failed the invocation ends with that error and
\* phase 2 is not attempted, whatever the flag and the gate are.
C14_PhasesIndependentUnlessFailed ==
    /\ [][\A i \in Invocations :
             /\ GuardsDecide(i)
             /\ Leaves(i, "calculateKeyCharacteristicsMetrics")
                => IF keyCharacteristics'[i] # None
                   THEN pc'[i] = "phase2" /\ result'[i] = None
                   ELSE pc'[i] = "done" /\ result'[i] # None]_vars
    /\ [](\A i \in Invocations :
             (/\ Called(i, "calculateKeyCharacteristicsMetrics")
              /\ ~Returned(i, "calculateKeyCharacteristicsMetrics", "OK"))
             => /\ Failed(i)
                /\ ~Called(i, "gMultitenancySupport")
                /\ ~Called(i, "calculateReadWriteDistributionMetrics"))

C14_Witness ==
    \E i \in Invocations :
        /\ Returned(i, "calculateKeyCharacteristicsMetrics", "Interrupted")
        /\ FailedWith(i, "Interrupted")
        /\ ~gMultitenancySupport
        /\ ~failPoints[analyzeShardKeySkipCalcalutingReadWriteDistributionMetrics]
        /\ ~Called(i, "calculateReadWriteDistributionMetrics")

\* Invocation i has passed all four precondition checks, in order.
PassedAllChecks(i) ==
    /\ Len(trace[i]) >= 5
    /\ \A c \in 1..4 :
          /\ trace[i][c + 1].op = PreconditionChecks[c]
          /\ CheckPasses(c, trace[i][c + 1].ret)

\* Phase 1 of invocation i is over: skipped, or called and returned with the
\* key characteristics stored and the note decided.
Phase1Completed(i) ==
    \/ KeyCharacteristicsGateEngaged(i) /\ keyCharacteristics[i] = None
    \/ /\ KeyCharacteristicsGateDisengaged(i)
       /\ Returned(i, "calculateKeyCharacteristicsMetrics", "OK")
       /\ keyCharacteristics[i] # None
       /\ Value(response[i]).keyCharacteristics = keyCharacteristics[i]
       /\ Value(response[i]).note =
             IF Value(keyCharacteristics[i]).numOrphanDocs # None
             THEN Some(kOrphanDocsWarningMessage)
             ELSE None

\* C15: no analysis phase starts before all four precondition checks have
\* passed; calculateReadWriteDistributionMetrics starts only after phase 1
\* is over, with the key characteristics stored and the note decided when
\* phase 1 ran; and the collaborators are called in the order phase 1,
\* phase 2.
C15_ValidateThenPhase1ThenPhase2 ==
    \A i \in Invocations :
        /\ (\/ pc[i] \in {"phase1", "calculateKeyCharacteristicsMetrics", "phase2",
                          "calculateReadWriteDistributionMetrics", "return"}
            \/ calls[i] # <<>>
            \/ Succeeded(i))
           => PassedAllChecks(i)
        /\ (\/ pc[i] \in {"phase2", "calculateReadWriteDistributionMetrics", "return"}
            \/ Called(i, "calculateReadWriteDistributionMetrics")
            \/ Succeeded(i))
           => Phase1Completed(i)
        /\ Len(calls[i]) >= 1
           => calls[i][Len(calls[i])].op =
                 IF Called(i, "calculateReadWriteDistributionMetrics")
                 THEN "calculateReadWriteDistributionMetrics"
                 ELSE "calculateKeyCharacteristicsMetrics"
        /\ Len(calls[i]) = 2 => calls[i][1].op = "calculateKeyCharacteristicsMetrics"

C15_Witness ==
    \E i \in Invocations :
        /\ pc[i] = "calculateReadWriteDistributionMetrics"
        /\ PassedAllChecks(i)
        /\ Returned(i, "calculateKeyCharacteristicsMetrics", "OK")
        /\ Value(response[i]).note = Some(kOrphanDocsWarningMessage)
        /\ Len(calls[i]) = 1

\* A well-formed outcome: a response and no error, or an error and no
\* response.
OneOutcome(i) ==
    /\ result[i] # None
    /\ \/ /\ Value(result[i]).ok
          /\ Value(result[i]).code = "OK"
          /\ Value(result[i]).response # None
       \/ /\ ~Value(result[i]).ok
          /\ Value(result[i]).code # "OK"
          /\ Value(result[i]).response = None

\* C16: an invocation has an outcome exactly when it has ended, and then it
\* is one response or one error; no check and no collaborator is called
\* twice; an outcome, once given, never changes; and every dispatched
\* invocation ends.
C16_OneOutcome ==
    \A i \in Invocations :
        /\ Finished(i) <=> result[i] # None
        /\ Finished(i) => OneOutcome(i)
        /\ \A k, l \in 1..Len(trace[i]) : k < l => trace[i][k].op # trace[i][l].op
        /\ \A k, l \in 1..Len(calls[i]) : k < l => calls[i][k].op # calls[i][l].op

C16_OutcomeIsFinal ==
    \A i \in Invocations :
        result[i] # None => /\ result'[i] = result[i]
                            /\ pc'[i] = "done"
                            /\ trace'[i] = trace[i]

C16_Terminates ==
    [](C16_OneOutcome)
    /\ [][C16_OutcomeIsFinal]_vars
    /\ \A i \in Invocations : (pc[i] # "idle") ~> Finished(i)

C16_Witness ==
    \E i \in Invocations :
        /\ Finished(i)
        /\ Succeeded(i)
        /\ Len(trace[i]) = 10
        /\ Len(calls[i]) = 2

\* The arguments both collaborators must be called with: the namespace and
\* the key of the request and the UUID bound by validation.
ValidatedArgs(i, op) ==
    Call(op, Value(request[i]).ns, collUuid[i], Value(request[i]).key)

\* C17: collUuid is bound exactly when validateCollectionOptionsLocally
\* succeeded; every collaborator call gets the request's namespace, that
\* UUID and the request's key, so both phases get the same three values,
\* also when the collection is dropped and recreated in between; and once
\* bound, collUuid, like the request, never changes, being written by the
\* validation step only, with the UUID the catalog holds at that step.
C17_IdentityPassedUnchanged ==
    \A i \in Invocations :
        /\ collUuid[i] # None <=> Returned(i, "validateCollectionOptionsLocally", "OK")
        /\ \A k \in 1..Len(calls[i]) :
              /\ calls[i][k] = ValidatedArgs(i, calls[i][k].op)
              /\ calls[i][k].collUuid # None
        /\ Len(calls[i]) = 2
           => /\ calls[i][1].nss = calls[i][2].nss
              /\ calls[i][1].collUuid = calls[i][2].collUuid
              /\ calls[i][1].key = calls[i][2].key

C17_IdentityReadOnly ==
    \A i \in Invocations :
        /\ collUuid'[i] # collUuid[i]
           => /\ pc[i] = "validateCollectionOptionsLocally"
              /\ collUuid[i] = None
              /\ collUuid'[i] = catalog[Value(request[i]).ns].uuid
        /\ request[i] # None => request'[i] = request[i]

C17_IdentityResolvedOnce ==
    [](C17_IdentityPassedUnchanged) /\ [][C17_IdentityReadOnly]_vars

C17_Witness ==
    \E i \in Invocations :
        /\ Len(calls[i]) = 2
        /\ calls[i][1] = ValidatedArgs(i, "calculateKeyCharacteristicsMetrics")
        /\ calls[i][2] = ValidatedArgs(i, "calculateReadWriteDistributionMetrics")
        /\ calls[i][2].collUuid = Some("uuid-orders")
        /\ catalog["db.orders"].uuid = Some("uuid-recreated")
        /\ Succeeded(i)

\* ----------------------------------------------------------------- C18
\* What invocation i was given by its environment: the value of a gate when
\* i read it, and what a collaborator returned to i.
SeenGate(i, op) == Returned(i, op, "true")

SeenResult(i, op, value) ==
    IF Returned(i, op, "OK")
    THEN StatusOK(value)
    ELSE IF \E code \in CollaboratorErrors : Returned(i, op, code)
         THEN Status(CHOOSE code \in CollaboratorErrors : Returned(i, op, code))
         ELSE Status("NotCalled")

\* Lines 121-127 and 69-109 run from start to end by one thread alone, for a
\* request, the deployment flags, the two gate values and the two
\* collaborator results.
RunAlone(req, kcGate, kcResult, rwGate, rwResult) ==
    IF ~req.authorized THEN Error("Unauthorized")
    ELSE IF ~isReplEnabled THEN Error("IllegalOperation")
    ELSE IF exclusivelyHasConfigRole(clusterRole) THEN Error("IllegalOperation")
    ELSE IF validateNamespace(req.ns).code # "OK"
    THEN Error(validateNamespace(req.ns).code)
    ELSE IF validateCollectionOptionsLocally(catalog, req.ns).code # "OK"
    THEN Error(validateCollectionOptionsLocally(catalog, req.ns).code)
    ELSE IF ~kcGate /\ kcResult.code # "OK" THEN Error(kcResult.code)
    ELSE LET afterPhase1 ==
                 IF ~kcGate
                 THEN AttachOrphanDocsNote(
                          setKeyCharacteristics(EmptyResponse, Value(kcResult.value)))
                 ELSE EmptyResponse
         IN  IF gMultitenancySupport \/ rwGate THEN Ok(afterPhase1)
             ELSE IF rwResult.code # "OK" THEN Error(rwResult.code)
             ELSE Ok(SetDistributions(afterPhase1,
                                      Value(rwResult.value)[1],
                                      Value(rwResult.value)[2]))

\* The outcome of invocation i is the outcome of running it alone.
OutcomeAsAlone(i) ==
    Finished(i)
    => result[i] = Some(RunAlone(Value(request[i]),
                           SeenGate(i, "shouldFail(KeyCharacterics)"),
                           SeenResult(i, "calculateKeyCharacteristicsMetrics",
                                      keyCharacteristics[i]),
                           SeenGate(i, "shouldFail(ReadWriteDistribution)"),
                           SeenResult(i, "calculateReadWriteDistributionMetrics",
                                      distributions[i])))

\* The state of invocation j.
Locals(j) ==
    <<pc[j], request[j], collUuid[j], keyCharacteristics[j], distributions[j],
      calls[j], response[j], result[j], trace[j]>>

\* A step of invocation i leaves the state of every other invocation alone.
StepsAreLocal ==
    \A i, j \in DOMAIN pc :
        (i # j /\ pc'[i] # pc[i]) => Locals(j)' = Locals(j)

\* C18: with two invocations interleaved in every way, on the same or on
\* different namespaces, each finished invocation has the outcome (the error,
\* or the response with each of its fields) of a run alone given the same
\* request, deployment flags, gate values and collaborator results, and no
\* step of one invocation changes the request, the collection UUID, the
\* response, the result or the position of another.
C18_ConcurrentIndependent ==
    /\ [](\A i \in DOMAIN pc : OutcomeAsAlone(i))
    /\ [][StepsAreLocal]_vars

C18_Witness ==
    /\ DOMAIN pc = {1, 2}
    /\ Succeeded(1)
    /\ Reply(1).note # None
    /\ pc[2] = "calculateReadWriteDistributionMetrics"
    /\ Value(request[2]).ns = Value(request[1]).ns
    /\ keyCharacteristics[2] # keyCharacteristics[1]
    /\ response[2] # response[1]

\* ----------------------------------------------------------------- C19
kKeyCharacteristicsGate == "shouldFail(KeyCharacterics)"

kDistributionGate == "shouldFail(ReadWriteDistribution)"

\* The positions of the trace of invocation i at which op was evaluated.
Positions(i, op) == {k \in 1..Len(trace[i]) : trace[i][k].op = op}

\* Where the gates have been read so far.
GatesReadAtEntry(i) ==
    LET kc == Positions(i, kKeyCharacteristicsGate)
        rw == Positions(i, kDistributionGate)
    IN  /\ kc \subseteq {6}
        /\ kc # {} => PassedAllChecks(i)
        /\ (PassedAllChecks(i) /\ pc[i] # "phase1") <=> kc = {6}
        /\ \A k \in Positions(i, "calculateKeyCharacteristicsMetrics") :
              k = 7 /\ trace[i][6] = Event(kKeyCharacteristicsGate, "false")
        /\ Cardinality(rw) <= 1
        /\ \A k \in rw :
              /\ trace[i][k - 1] = Event("gMultitenancySupport", "false")
              /\ \/ k = 8 /\ trace[i][6] = Event(kKeyCharacteristicsGate, "true")
                 \/ /\ k = 9
                    /\ trace[i][7] = Event("calculateKeyCharacteristicsMetrics", "OK")
              /\ Phase1Completed(i)
        /\ \A k \in Positions(i, "calculateReadWriteDistributionMetrics") :
              trace[i][k - 1] = Event(kDistributionGate, "false")
        /\ gMultitenancySupport => rw = {}
        /\ (Failed(i) /\ ~Called(i, "calculateReadWriteDistributionMetrics"))
           => rw = {}
        /\ (pc[i] \in {"calculateReadWriteDistributionMetrics", "return"}
            /\ ~gMultitenancySupport) => rw # {}

\* The events a step appends to the trace of invocation i.
NewEvents(i) ==
    {trace'[i][k] : k \in (Len(trace[i]) + 1)..Len(trace'[i])}

\* A gate is read by the step that enters its phase, and what that step
\* reads and acts on is the value the gate has at that moment.
GateValueAtEntry(i) ==
    /\ \A e \in NewEvents(i) :
          /\ e.op = kKeyCharacteristicsGate
             => /\ pc[i] = "phase1"
                /\ e.ret = BoolStr(failPoints[
                              analyzeShardKeySkipCalcalutingKeyCharactericsMetrics])
                /\ pc'[i] = IF e.ret = "true" THEN "phase2"
                            ELSE "calculateKeyCharacteristicsMetrics"
          /\ e.op = kDistributionGate
             => /\ pc[i] = "phase2"
                /\ ~gMultitenancySupport
                /\ e.ret = BoolStr(failPoints[
                              analyzeShardKeySkipCalcalutingReadWriteDistributionMetrics])
                /\ pc'[i] = IF e.ret = "true" THEN "return"
                            ELSE "calculateReadWriteDistributionMetrics"
    /\ failPoints' # failPoints => trace'[i] = trace[i] /\ pc'[i] = pc[i]

\* C19: the key-characteristics gate is read once, as the sixth evaluation
\* of an invocation, after the four precondition checks passed and before
\* phase 1; the distribution gate is read at most once, right after the
\* multi-tenant flag was found off and only when phase 1 is over, it is
\* never read when the deployment is multi-tenant or when the invocation
\* ended with an error before phase 2; and each read takes the value the gate
\* has at that step, so a gate toggled while phase 1 runs decides phase 2
\* of the same invocation.
C19_GatesReadAtPhaseEntry ==
    /\ [](\A i \in Invocations : GatesReadAtEntry(i))
    /\ [][\A i \in Invocations : GateValueAtEntry(i)]_vars

\* Phase 1 ran, the distribution gate was then found engaged and phase 2 was
\* skipped, although the gate is disengaged again by now.
C19_Witness ==
    \E i \in Invocations :
        /\ Succeeded(i)
        /\ Positions(i, kKeyCharacteristicsGate) = {6}
        /\ Returned(i, "calculateKeyCharacteristicsMetrics", "OK")
        /\ Returned(i, kDistributionGate, "true")
        /\ ~Called(i, "calculateReadWriteDistributionMetrics")
        /\ ~failPoints[analyzeShardKeySkipCalcalutingReadWriteDistributionMetrics]
====
